---- MODULE Spec2Model ----
(***************************************************************************)
(* The KITT order ledger: services/orders/models.py, storage.py, api.py.   *)
(*                                                                         *)
(* The orders table is the state.  Every column holds what SQLite holds:   *)
(* the timestamp as the text datetime.isoformat() writes, the metadata as  *)
(* the text json.dumps writes.  Reads go back through fromisoformat and    *)
(* json.loads, comparisons of the timestamp column are comparisons of      *)
(* text, as in "ORDER BY timestamp" and "timestamp >= ?".                  *)
(***************************************************************************)
EXTENDS Integers, Sequences, FiniteSets, TLC

(***************************************************************************)
(* The bound of the model: the rows the table may hold (create_order is    *)
(* disabled beyond it).                                                    *)
(***************************************************************************)
MaxOrders == 2

\* F applied to the value of e: e is evaluated once, as an argument is in Python.
With(e, F(_)) == CHOOSE out \in {F(v) : v \in {e}} : TRUE

(***************************************************************************)
(* Python values.  A JSON-compatible value is a tagged tuple: <<"null">>   *)
(* (None), <<"bool", b>>, <<"num", n>>, <<"str", s>>, <<"arr", items>>,    *)
(* <<"obj", pairs>> with pairs a sequence of <<key, value>> in the dict's  *)
(* insertion order.                                                        *)
(***************************************************************************)
None == <<"null">>
EmptyDict == <<"obj", <<>>>>

\* Python truthiness of the values the ledger tests with `or` and `not`.
Truthy(v) ==
    CASE v[1] = "null" -> FALSE
      [] v[1] = "bool" -> v[2]
      [] v[1] = "num" -> v[2] # 0
      [] v[1] = "str" -> v[2] # ""
      [] v[1] = "arr" -> Len(v[2]) > 0
      [] v[1] = "obj" -> Len(v[2]) > 0
      [] OTHER -> TRUE

(***************************************************************************)
(* json.dumps: the text is a sequence of tokens.  Punctuation is one token *)
(* each; a scalar literal is one token carrying what the literal spells.   *)
(***************************************************************************)
RECURSIVE json_dumps(_)
RECURSIVE dumps_items(_)
RECURSIVE dumps_pairs(_)

dumps_items(items) ==
    IF Len(items) = 0 THEN <<>>
    ELSE IF Len(items) = 1 THEN json_dumps(items[1])
    ELSE json_dumps(items[1]) \o << <<",">> >> \o dumps_items(Tail(items))

dumps_pairs(pairs) ==
    IF Len(pairs) = 0 THEN <<>>
    ELSE LET one == << <<"str", pairs[1][1]>>, <<":">> >> \o json_dumps(pairs[1][2])
         IN IF Len(pairs) = 1 THEN one
            ELSE one \o << <<",">> >> \o dumps_pairs(Tail(pairs))

json_dumps(v) ==
    CASE v[1] = "null" -> << <<"lit", "null">> >>
      [] v[1] = "bool" -> << <<"lit", IF v[2] THEN "true" ELSE "false">> >>
      [] v[1] = "num" -> << <<"num", v[2]>> >>
      [] v[1] = "str" -> << <<"str", v[2]>> >>
      [] v[1] = "arr" -> << <<"[">> >> \o dumps_items(v[2]) \o << <<"]">> >>
      [] v[1] = "obj" -> << <<"{">> >> \o dumps_pairs(v[2]) \o << <<"}">> >>

(***************************************************************************)
(* json.loads: a recursive-descent parse of the token text.  A parse step  *)
(* answers [ok, val, pos]: the value read and the place after it.  Text    *)
(* that is no JSON document raises JSONDecodeError.                        *)
(***************************************************************************)
JSONDecodeError == <<"raise", "JSONDecodeError">>
ParseFail == [ok |-> FALSE, val |-> None, pos |-> 0]

IsTok(toks, i, t) == i <= Len(toks) /\ toks[i] = <<t>>

RECURSIVE parse_value(_, _)
RECURSIVE parse_items(_, _, _)
RECURSIVE parse_pairs(_, _, _)

\* After one item r of an array: "]" ends it, "," brings the next item.
items_after(toks, acc, r) ==
    IF ~r.ok THEN ParseFail
    ELSE IF IsTok(toks, r.pos, "]")
         THEN [ok |-> TRUE, val |-> <<"arr", Append(acc, r.val)>>, pos |-> r.pos + 1]
    ELSE IF IsTok(toks, r.pos, ",")
         THEN parse_items(toks, r.pos + 1, Append(acc, r.val))
    ELSE ParseFail

\* The items of an array after "[": acc holds those read so far.
parse_items(toks, i, acc) ==
    With(acc, LAMBDA a : With(parse_value(toks, i), LAMBDA r : items_after(toks, a, r)))

\* After one member key: r of an object: "}" ends it, "," brings the next
\* member.  A repeated key keeps its first place and takes the last value.
pairs_after(toks, acc, key, r) ==
    IF ~r.ok THEN ParseFail
    ELSE LET seen == {k \in 1..Len(acc) : acc[k][1] = key}
             acc2 == IF seen = {} THEN Append(acc, <<key, r.val>>)
                     ELSE [k \in 1..Len(acc) |->
                             IF k \in seen THEN <<key, r.val>> ELSE acc[k]]
         IN IF IsTok(toks, r.pos, "}")
            THEN [ok |-> TRUE, val |-> <<"obj", acc2>>, pos |-> r.pos + 1]
            ELSE IF IsTok(toks, r.pos, ",")
                 THEN parse_pairs(toks, r.pos + 1, acc2)
            ELSE ParseFail

\* The members of an object after "{": a string key, ":", a value.
parse_pairs(toks, i, acc) ==
    IF ~(i + 1 <= Len(toks) /\ toks[i][1] = "str" /\ toks[i + 1] = <<":">>)
    THEN ParseFail
    ELSE With(acc, LAMBDA a :
           With(parse_value(toks, i + 2), LAMBDA r : pairs_after(toks, a, toks[i][2], r)))

parse_value(toks, i) ==
    IF i > Len(toks) THEN ParseFail
    ELSE LET t == toks[i]
         IN CASE t[1] = "lit" ->
                   IF t[2] \notin {"null", "true", "false"} THEN ParseFail
                   ELSE [ok |-> TRUE,
                         val |-> IF t[2] = "null" THEN None
                                 ELSE <<"bool", t[2] = "true">>,
                         pos |-> i + 1]
              [] t[1] = "num" -> [ok |-> TRUE, val |-> <<"num", t[2]>>, pos |-> i + 1]
              [] t[1] = "str" -> [ok |-> TRUE, val |-> <<"str", t[2]>>, pos |-> i + 1]
              [] t[1] = "[" ->
                   IF IsTok(toks, i + 1, "]")
                   THEN [ok |-> TRUE, val |-> <<"arr", <<>>>>, pos |-> i + 2]
                   ELSE parse_items(toks, i + 1, <<>>)
              [] t[1] = "{" ->
                   IF IsTok(toks, i + 1, "}")
                   THEN [ok |-> TRUE, val |-> EmptyDict, pos |-> i + 2]
                   ELSE parse_pairs(toks, i + 1, <<>>)
              [] OTHER -> ParseFail

\* json.loads: one value, and nothing after it.
loads_done(text, r) ==
    IF r.ok /\ r.pos = Len(text) + 1 THEN r.val ELSE JSONDecodeError

json_loads(text) == With(parse_value(text, 1), LAMBDA r : loads_done(text, r))

(***************************************************************************)
(* datetime.  A datetime is [day, us, off]: the day of the month, the      *)
(* microsecond and the UTC offset in hours.  The year and month are those  *)
(* of one fixed month and the time of day is 00:00:00 plus the microsecond *)
(* field; these are the fields the ledger's comparisons turn on.  Text is  *)
(* a sequence of character codes (ASCII), compared as SQLite compares TEXT *)
(* under the BINARY collation: byte by byte, a proper prefix first.        *)
(***************************************************************************)
Digits2(n) == <<48 + (n \div 10), 48 + (n % 10)>>

Digits6(n) ==
    <<48 + ((n \div 100000) % 10), 48 + ((n \div 10000) % 10),
      48 + ((n \div 1000) % 10), 48 + ((n \div 100) % 10),
      48 + ((n \div 10) % 10), 48 + (n % 10)>>

Num2(text, i) == (text[i] - 48) * 10 + (text[i + 1] - 48)

Num6(text, i) ==
    (text[i] - 48) * 100000 + (text[i + 1] - 48) * 10000 + (text[i + 2] - 48) * 1000
    + (text[i + 3] - 48) * 100 + (text[i + 4] - 48) * 10 + (text[i + 5] - 48)

\* Mutant: isoformat(timespec="seconds"), the microsecond is not written.
isoformat_seconds(dt) ==
    <<50, 48, 50, 52, 45, 48, 49, 45>> \o Digits2(dt.day)
    \o <<84, 48, 48, 58, 48, 48, 58, 48, 48>>
    \o <<IF dt.off >= 0 THEN 43 ELSE 45>>
    \o Digits2(IF dt.off >= 0 THEN dt.off ELSE -dt.off)
    \o <<58, 48, 48>>

\* datetime.isoformat(): "2024-01-DDT00:00:00[.ffffff]+HH:00".  The fraction is
\* written only when the microsecond is not zero.
isoformat(dt) ==
    <<50, 48, 50, 52, 45, 48, 49, 45>> \o Digits2(dt.day)
    \o <<84, 48, 48, 58, 48, 48, 58, 48, 48>>
    \o (IF dt.us = 0 THEN <<>> ELSE <<46>> \o Digits6(dt.us))
    \o <<IF dt.off >= 0 THEN 43 ELSE 45>>
    \o Digits2(IF dt.off >= 0 THEN dt.off ELSE -dt.off)
    \o <<58, 48, 48>>

\* datetime.fromisoformat() of such a text.
fromisoformat(text) ==
    LET frac == text[20] = 46
        at == IF frac THEN 27 ELSE 20
        hours == Num2(text, at + 1)
    IN [day |-> Num2(text, 9),
        us |-> IF frac THEN Num6(text, 21) ELSE 0,
        off |-> IF text[at] = 43 THEN hours ELSE -hours]

\* Aware datetimes compare by the instant they name: the hour from the month's
\* start in UTC, then the microsecond.
UtcHour(dt) == dt.day * 24 - dt.off
DtLess(a, b) == UtcHour(a) < UtcHour(b) \/ (UtcHour(a) = UtcHour(b) /\ a.us < b.us)
DtLeq(a, b) == ~DtLess(b, a)

\* Text comparison, byte by byte; a proper prefix sorts first.
TextLess(a, b) ==
    LET n == IF Len(a) < Len(b) THEN Len(a) ELSE Len(b)
        diff == {i \in 1..n : a[i] # b[i]}
    IN IF diff = {} THEN Len(a) < Len(b)
       ELSE LET k == CHOOSE i \in diff : \A j \in diff : i <= j
            IN a[k] < b[k]

\* timedelta(days=7) of the rolling week.
WeekDays == 7

\* Mutant: the week always starts from the clock's reading.
rolling_week_start_from_clock(now, utcnow) ==
    [utcnow EXCEPT !.day = @ - WeekDays]

\* rolling_week_start: `now or datetime.now(timezone.utc)`, minus seven days.
\* utcnow is the clock's reading at the call.
\* An optional datetime argument is None or <<"datetime", dt>>.
rolling_week_start(now, utcnow) ==
    LET now_utc == IF now # None THEN now[2] ELSE utcnow
    IN [now_utc EXCEPT !.day = @ - WeekDays]

(***************************************************************************)
(* models.py                                                               *)
(***************************************************************************)
\* Mutant: the vocabulary grown by a status the ledger does not know.
ALLOWED_STATUSES_with_shipped ==
    {"requested", "in_progress", "delivered", "cancelled", "shipped"}

ALLOWED_STATUSES == {"requested", "in_progress", "delivered", "cancelled"}

OrderRecord(order_id, timestamp, user_id, status, metadata) ==
    [order_id |-> order_id, timestamp |-> timestamp, user_id |-> user_id,
     status |-> status, metadata |-> metadata]

OrderCreateRequest(user_id, metadata) == [user_id |-> user_id, metadata |-> metadata]

ValueError == <<"raise", "ValueError">>
TypeError == <<"raise", "TypeError">>
Raised(x) == x[1] = "raise"

(***************************************************************************)
(* storage.py.  A table is the sequence of its rows in rowid order; a row  *)
(* is [id, timestamp, user_id, status, metadata] with the two TEXT columns *)
(* holding text.  An operation answers what it returns together with the   *)
(* table (and the AUTOINCREMENT counter) it commits.                       *)
(***************************************************************************)
Ids(tbl) == {tbl[i].id : i \in 1..Len(tbl)}

\* Mutant: the metadata column is not decoded.
row_to_record_no_metadata(row) ==
    <<"record",
      OrderRecord(row.id, fromisoformat(row.timestamp), row.user_id, row.status,
                  EmptyDict)>>

\* _row_to_record
row_to_record(row) ==
    With(IF row.metadata # <<>> THEN json_loads(row.metadata) ELSE EmptyDict,
         LAMBDA metadata :
           IF Raised(metadata) THEN metadata
           ELSE <<"record",
                  OrderRecord(row.id, fromisoformat(row.timestamp), row.user_id,
                              row.status, metadata)>>)

\* _fetch_orders over the rows a query selected: a row that does not decode
\* raises out of the whole fetch.
fetch_orders(rows) ==
    With([i \in 1..Len(rows) |-> row_to_record(rows[i])],
         LAMBDA recs :
           LET bad == {i \in 1..Len(rows) : Raised(recs[i])}
           IN IF bad # {} THEN recs[CHOOSE i \in bad : \A j \in bad : i <= j]
              ELSE <<"rows", [i \in 1..Len(rows) |-> recs[i][2]]>>)

\* Mutant: the rowid of the newest row is issued again.
NextRowid_reuse(tbl, seq) == IF Len(tbl) = 0 THEN 1 ELSE tbl[Len(tbl)].id

\* INTEGER PRIMARY KEY AUTOINCREMENT: one more than the largest rowid ever
\* issued, which sqlite_sequence remembers.
NextRowid(tbl, seq) ==
    LET used == Ids(tbl) \cup {seq}
    IN 1 + CHOOSE m \in used : \A k \in used : k <= m

\* Mutant: the returned record does not carry the request's metadata.
insert_order_drops_metadata(tbl, timestamp, request, metadata, order_id) ==
    [orders |-> Append(tbl, [id |-> order_id, timestamp |-> isoformat(timestamp),
                             user_id |-> request.user_id, status |-> "requested",
                             metadata |-> metadata]),
     seq |-> order_id,
     ret |-> <<"record",
               OrderRecord(order_id, timestamp, request.user_id, "requested",
                           EmptyDict)>>]

\* The INSERT of create_order and the record it returns.
insert_order(tbl, timestamp, request, metadata, order_id) ==
    [orders |-> Append(tbl, [id |-> order_id, timestamp |-> isoformat(timestamp),
                             user_id |-> request.user_id, status |-> "requested",
                             metadata |-> metadata]),
     seq |-> order_id,
     ret |-> <<"record",
               OrderRecord(order_id, timestamp, request.user_id, "requested",
                           IF Truthy(request.metadata) THEN request.metadata
                           ELSE EmptyDict)>>]

create_order(tbl, seq, utcnow, request) ==
    With(json_dumps(IF Truthy(request.metadata) THEN request.metadata ELSE EmptyDict),
         LAMBDA metadata :
           With(NextRowid(tbl, seq),
                LAMBDA order_id : insert_order(tbl, utcnow, request, metadata, order_id)))

\* Mutant: the query has lost its WHERE clause.
get_order_any_row(tbl, order_id) ==
    With(fetch_orders(tbl),
         LAMBDA fetched :
           IF Raised(fetched) THEN fetched
           ELSE IF Len(fetched[2]) > 0 THEN <<"record", fetched[2][1]>>
           ELSE None)

\* "SELECT * FROM orders WHERE id = ?" through _fetch_orders; rows[0] or None.
get_order(tbl, order_id) ==
    With(fetch_orders(SelectSeq(tbl, LAMBDA row : row.id = order_id)),
         LAMBDA fetched :
           IF Raised(fetched) THEN fetched
           ELSE IF Len(fetched[2]) > 0 THEN <<"record", fetched[2][1]>>
           ELSE None)

\* Mutant: a delivered or cancelled order keeps its status.
update_existing_terminal(tbl, order_id, existing, status, new_metadata) ==
    LET kept == IF existing.status \in {"delivered", "cancelled"}
                THEN existing.status ELSE status
    IN [orders |-> [i \in 1..Len(tbl) |->
                      IF tbl[i].id = order_id
                      THEN [tbl[i] EXCEPT !.status = kept,
                                          !.metadata = json_dumps(new_metadata)]
                      ELSE tbl[i]],
        ret |-> <<"record",
                  OrderRecord(existing.order_id, existing.timestamp,
                              existing.user_id, kept, new_metadata)>>]

\* Mutant: the table is written anew with the updated row alone.
update_existing_rewrites_table(tbl, order_id, existing, status, new_metadata) ==
    [orders |-> SelectSeq([i \in 1..Len(tbl) |->
                             [tbl[i] EXCEPT !.status = status,
                                            !.metadata = json_dumps(new_metadata)]],
                          LAMBDA row : row.id = order_id),
     ret |-> <<"record",
               OrderRecord(existing.order_id, existing.timestamp,
                           existing.user_id, status, new_metadata)>>]

\* Mutant: the record returned is the one read before the UPDATE.
update_existing_returns_existing(tbl, order_id, existing, status, new_metadata) ==
    [orders |-> [i \in 1..Len(tbl) |->
                   IF tbl[i].id = order_id
                   THEN [tbl[i] EXCEPT !.status = status,
                                       !.metadata = json_dumps(new_metadata)]
                   ELSE tbl[i]],
     ret |-> <<"record", existing>>]

\* The UPDATE of update_order_status on an order that exists, and the record
\* it returns.
update_existing(tbl, order_id, existing, status, new_metadata) ==
    With(json_dumps(new_metadata),
         LAMBDA text :
           [orders |-> [i \in 1..Len(tbl) |->
                          IF tbl[i].id = order_id
                          THEN [tbl[i] EXCEPT !.status = status, !.metadata = text]
                          ELSE tbl[i]],
            ret |-> <<"record",
                      OrderRecord(existing.order_id, existing.timestamp,
                                  existing.user_id, status, new_metadata)>>])

\* Mutant: the metadata argument is written as it came, absent or not.
update_order_status_writes_absent(tbl, order_id, status, metadata) ==
    IF status \notin ALLOWED_STATUSES THEN [orders |-> tbl, ret |-> ValueError]
    ELSE With(get_order(tbl, order_id),
              LAMBDA existing :
                IF Raised(existing) THEN [orders |-> tbl, ret |-> existing]
                ELSE IF existing = None THEN [orders |-> tbl, ret |-> None]
                ELSE update_existing(tbl, order_id, existing[2], status, metadata))

\* Mutant: `if metadata:` instead of `if metadata is not None:`.
update_order_status_truthy(tbl, order_id, status, metadata) ==
    IF status \notin ALLOWED_STATUSES THEN [orders |-> tbl, ret |-> ValueError]
    ELSE With(get_order(tbl, order_id),
              LAMBDA existing :
                IF Raised(existing) THEN [orders |-> tbl, ret |-> existing]
                ELSE IF existing = None THEN [orders |-> tbl, ret |-> None]
                ELSE update_existing(tbl, order_id, existing[2], status,
                                     IF Truthy(metadata) THEN metadata
                                     ELSE existing[2].metadata))

update_order_status(tbl, order_id, status, metadata) ==
    IF status \notin ALLOWED_STATUSES THEN [orders |-> tbl, ret |-> ValueError]
    ELSE With(get_order(tbl, order_id),
              LAMBDA existing :
                IF Raised(existing) THEN [orders |-> tbl, ret |-> existing]
                ELSE IF existing = None THEN [orders |-> tbl, ret |-> None]
                ELSE update_existing(tbl, order_id, existing[2], status,
                                     IF metadata # None THEN metadata
                                     ELSE existing[2].metadata))

\* Mutant: ascending instead of descending.
OrderByTimestampAsc(tbl) ==
    LET n == Len(tbl)
        perms == {p \in [1..n -> 1..n] : \A i, j \in 1..n : i # j => p[i] # p[j]}
    IN {[i \in 1..n |-> tbl[p[i]]] :
          p \in {q \in perms : \A i, j \in 1..n :
                    i < j => ~TextLess(tbl[q[j]].timestamp, tbl[q[i]].timestamp)}}

\* "ORDER BY timestamp DESC": the orders of the rows that put no row before one
\* of greater timestamp text.  The query names no second key, so rows of equal
\* timestamp come in an order the engine chooses.
OrderByTimestampDesc(tbl) ==
    LET n == Len(tbl)
        perms == {p \in [1..n -> 1..n] : \A i, j \in 1..n : i # j => p[i] # p[j]}
    IN {[i \in 1..n |-> tbl[p[i]]] :
          p \in {q \in perms : \A i, j \in 1..n :
                    i < j => ~TextLess(tbl[q[i]].timestamp, tbl[q[j]].timestamp)}}

\* Mutant: the limit counts one row too many.
SqlLimit_one_less(rows, limit) ==
    IF limit < 0 \/ limit > Len(rows) THEN rows
    ELSE SubSeq(rows, 1, IF limit > 0 THEN limit - 1 ELSE 0)

\* "LIMIT ?": the first `limit` rows; SQLite takes a negative limit for none.
SqlLimit(rows, limit) ==
    IF limit < 0 \/ limit >= Len(rows) THEN rows ELSE SubSeq(rows, 1, limit)

\* list_orders: every result the query may give, each a _fetch_orders answer.
list_orders(tbl, limit) ==
    {fetch_orders(SqlLimit(rows, limit)) : rows \in OrderByTimestampDesc(tbl)}

\* Mutant: the count is of another status.
delivered_count_requested(tbl) ==
    Cardinality({i \in 1..Len(tbl) : tbl[i].status = "requested"})

\* "SELECT COUNT(*) FROM orders WHERE status = 'delivered'"
delivered_count(tbl) ==
    Cardinality({i \in 1..Len(tbl) : tbl[i].status = "delivered"})

\* Mutant: the status is left out of the WHERE clause.
delivered_count_since_any_status(tbl, since) ==
    Cardinality({i \in 1..Len(tbl) : ~TextLess(tbl[i].timestamp, isoformat(since))})

\* "... WHERE status = 'delivered' AND timestamp >= ?" with since.isoformat()
delivered_count_since(tbl, since) ==
    Cardinality({i \in 1..Len(tbl) :
                   /\ tbl[i].status = "delivered"
                   /\ ~TextLess(tbl[i].timestamp, isoformat(since))})

(***************************************************************************)
(* api.py: OrderService                                                    *)
(***************************************************************************)
OrderService_create_order(tbl, seq, utcnow, user_id, metadata) ==
    LET request == OrderCreateRequest(user_id,
                      IF Truthy(metadata) THEN metadata ELSE EmptyDict)
    IN create_order(tbl, seq, utcnow, request)

update_status(tbl, order_id, status, metadata) ==
    IF status \notin ALLOWED_STATUSES THEN [orders |-> tbl, ret |-> ValueError]
    ELSE update_order_status(tbl, order_id, status, metadata)

\* `def get_history(self, limit: int = 100)`: a call without a limit is the
\* call with the default.
DefaultLimit == 100

get_history(tbl, limit) == list_orders(tbl, limit)

get_stats(tbl, now, utcnow) ==
    LET week_start == rolling_week_start(now, utcnow)
    IN [weekly_delivered |-> delivered_count_since(tbl, week_start),
        all_time_delivered |-> delivered_count(tbl)]

(***************************************************************************)
(* The leaderboard file of the web backend: a JSON document                *)
(* {"leaderboard": [{"name": n, "count": c}, ...]}.  The file's text is a  *)
(* token sequence as above (the indentation json.dumps(indent=2) adds is   *)
(* white space, which json.loads skips); no text is no file.               *)
(***************************************************************************)
MaxUpdates == 3

\* dict.get(key, default) and d[key] = val on a JSON object.
DictGet(obj, key, default) ==
    LET at == {i \in 1..Len(obj[2]) : obj[2][i][1] = key}
    IN IF at = {} THEN default ELSE obj[2][CHOOSE i \in at : TRUE][2]

DictSet(obj, key, val) ==
    IF \E i \in 1..Len(obj[2]) : obj[2][i][1] = key
    THEN <<"obj", [i \in 1..Len(obj[2]) |->
                     IF obj[2][i][1] = key THEN <<key, val>> ELSE obj[2][i]]>>
    ELSE <<"obj", Append(obj[2], <<key, val>>)>>

\* Mutant: names are compared as they are written.
lower_keeps_case(name) == name

\* str.lower() on the names callers give.
lower(name) ==
    CASE name = "Alice" -> "alice"
      [] name = "ALICE" -> "alice"
      [] name = "Bob" -> "bob"
      [] OTHER -> name

\* _load_json: the default when the file is missing or is no JSON.
load_json(text, default) ==
    IF text = <<>> THEN default
    ELSE With(json_loads(text), LAMBDA data : IF Raised(data) THEN default ELSE data)

\* _write_json
write_json(payload) == json_dumps(payload)

\* int(item.get("count", 0))
CountOf(item) == DictGet(item, "count", <<"num", 0>>)[2]

\* list.sort(key=count, reverse=True): stable, so entries of equal count keep
\* the order they had.
InsertByCount(sorted, item) ==
    LET k == Cardinality({i \in 1..Len(sorted) : CountOf(sorted[i]) >= CountOf(item)})
    IN SubSeq(sorted, 1, k) \o <<item>> \o SubSeq(sorted, k + 1, Len(sorted))

RECURSIVE sort_by_count(_)
sort_by_count(items) ==
    IF items = <<>> THEN <<>>
    ELSE InsertByCount(sort_by_count(SubSeq(items, 1, Len(items) - 1)),
                       items[Len(items)])

\* _update_leaderboard on the file's text: the text written, and the list
\* returned.
update_leaderboard(text, user, quantity) ==
    LET data == load_json(text, <<"obj", << <<"leaderboard", <<"arr", <<>>>> >> >> >>)
        leaderboard == DictGet(data, "leaderboard", <<"arr", <<>>>>)[2]
        found == {i \in 1..Len(leaderboard) :
                    lower(DictGet(leaderboard[i], "name", <<"str", "">>)[2])
                       = lower(user)}
        first == CHOOSE i \in found : \A j \in found : i <= j
        updated ==
            IF found # {} /\ Truthy(leaderboard[first])
            THEN [leaderboard EXCEPT
                    ![first] = DictSet(@, "count",
                                       <<"num", CountOf(@) + quantity>>)]
            ELSE Append(leaderboard,
                        <<"obj", << <<"name", <<"str", user>> >>,
                                    <<"count", <<"num", quantity>> >> >> >>)
        sorted == sort_by_count(updated)
    IN [file |-> write_json(DictSet(data, "leaderboard", <<"arr", sorted>>)),
        ret |-> sorted]

(***************************************************************************)
(* The inputs callers give.                                                *)
(***************************************************************************)
UserIds == {"", "dave"}

\* {"rfid": "tag-1", "mods": [1, {"ice": null}]}
Meta1 ==
    <<"obj", << <<"rfid", <<"str", "tag-1">> >>,
                <<"mods", <<"arr", << <<"num", 1>>,
                                      <<"obj", << <<"ice", None>> >> >> >> >> >> >> >>

MetadataInputs == {None, EmptyDict, Meta1}
StatusInputs == ALLOWED_STATUSES \cup {"shipped"}
OrderIdInputs == 0..MaxOrders
LimitInputs == (-1)..MaxOrders

\* The wall clock reads UTC.  Its readings are the first microseconds of the
\* 10th: the first is written without a fraction, the others with one.
Micros == {0, 1}
ClockStart == [day |-> 10, us |-> 0, off |-> 0]
ClockTimes == {[day |-> ClockStart.day, us |-> u, off |-> 0] : u \in Micros}

\* A caller's `now`: absent, or a datetime seven days after the clock's day,
\* to the microsecond, in UTC or in a zone two hours east of it.
NowOffsets == {0, 2}
NowInputs ==
    {None} \cup
    {<<"datetime", [day |-> ClockStart.day + WeekDays, us |-> u, off |-> o]>> :
       u \in Micros, o \in NowOffsets}

(***************************************************************************)
(* The state: the orders table and its AUTOINCREMENT counter, the user the *)
(* run's orders are placed for, the ids create_order has returned (in call *)
(* order) with the timestamp and the user of the records it returned, and  *)
(* the call made on the service that has just returned, with what it       *)
(* returned.  The wall clock is the environment's: a call that reads       *)
(* datetime.now gets some reading of ClockTimes, later than the one before *)
(* as time passes, equal to it within the clock's resolution, or earlier   *)
(* when the system clock has been stepped back.                            *)
(***************************************************************************)
VARIABLES orders, sqlite_sequence, user, issued, created, last,
          leaderboard_file, recorded, entries, procs, connection, response,
          constructed_on

vars == <<orders, sqlite_sequence, user, issued, created, last,
          leaderboard_file, recorded, entries, procs, connection, response,
          constructed_on>>

\* What the order service's calls, made one at a time, leave alone: the
\* leaderboard file of the web backend with the updates recorded in it and the
\* entries the last update returned, the calls under way step by step, the
\* store operation under way statement by statement with its connection, and
\* the response of the web backend to the request it has handled, and the
\* number of orders the database held when the storage object in use was
\* constructed on it.
outside == <<leaderboard_file, recorded, entries, procs, connection, response,
             constructed_on>>

OutsideInit ==
    /\ leaderboard_file = <<>>
    /\ recorded = <<>>
    /\ entries = <<>>
    /\ procs = <<>>
    /\ connection = <<>>
    /\ response = <<>>
    /\ constructed_on = 0

Call(op, user_id, order_id, status, metadata, limit, now, utcnow, ret) ==
    [op |-> op, user_id |-> user_id, order_id |-> order_id, status |-> status,
     metadata |-> metadata, limit |-> limit, now |-> now, utcnow |-> utcnow,
     ret |-> ret]

\* No call is under way.
Idle == Call("idle", "", 0, "", None, 0, None, ClockStart, None)

\* OrderStorage.__init__ on a new database path: the schema, no rows.
Init ==
    /\ orders = <<>>
    /\ sqlite_sequence = 0
    /\ user \in UserIds
    /\ issued = <<>>
    /\ created = <<>>
    /\ last = Idle
    /\ OutsideInit

CreateOrder(utcnow, metadata) ==
    /\ last = Idle
    /\ Len(orders) < MaxOrders
    /\ \E r \in {OrderService_create_order(orders, sqlite_sequence, utcnow,
                                          user, metadata)} :
          /\ orders' = r.orders
          /\ sqlite_sequence' = r.seq
          /\ issued' = Append(issued, r.ret[2].order_id)
          /\ created' = Append(created, [order_id |-> r.ret[2].order_id,
                                         timestamp |-> r.ret[2].timestamp,
                                         user_id |-> r.ret[2].user_id])
          /\ last' = Call("create_order", user, 0, "", metadata, 0, None, utcnow,
                          r.ret)
    /\ UNCHANGED <<user, outside>>

UpdateStatus(order_id, status, metadata) ==
    /\ last = Idle
    /\ \E r \in {update_status(orders, order_id, status, metadata)} :
          /\ orders' = r.orders
          /\ last' = Call("update_status", "", order_id, status, metadata, 0, None,
                          ClockStart, r.ret)
    /\ UNCHANGED <<sqlite_sequence, user, issued, created, outside>>

GetHistory(limit) ==
    /\ last = Idle
    /\ \E res \in get_history(orders, limit) :
          last' = Call("get_history", "", 0, "", None, limit, None, ClockStart, res)
    /\ UNCHANGED <<orders, sqlite_sequence, user, issued, created, outside>>

\* The clock is read only when the caller gives no `now`.
GetStats(now, utcnow) ==
    /\ last = Idle
    /\ now # None => utcnow = ClockStart
    /\ last' = Call("get_stats", "", 0, "", None, 0, now, utcnow,
                    <<"stats", get_stats(orders, now, utcnow)>>)
    /\ UNCHANGED <<orders, sqlite_sequence, user, issued, created, outside>>

\* The caller takes what the call returned; the service is ready for the next.
Return ==
    /\ last # Idle
    /\ last' = Idle
    /\ UNCHANGED <<orders, sqlite_sequence, user, issued, created, outside>>

Next ==
    \/ \E utcnow \in ClockTimes, metadata \in MetadataInputs :
          CreateOrder(utcnow, metadata)
    \/ \E order_id \in OrderIdInputs, status \in StatusInputs,
          metadata \in MetadataInputs : UpdateStatus(order_id, status, metadata)
    \/ \E limit \in LimitInputs \cup {DefaultLimit} : GetHistory(limit)
    \/ \E now \in NowInputs, utcnow \in ClockTimes : GetStats(now, utcnow)
    \/ Return

Spec == Init /\ [][Next]_vars

(***************************************************************************)
(* The leaderboard: updates of one file, one at a time, by the names and   *)
(* quantities callers give.  `recorded` keeps the updates made.            *)
(***************************************************************************)
Names == {"Alice", "alice", "ALICE", "Bob"}
Quantities == {1, 2}

LeaderboardInit ==
    /\ orders = <<>>
    /\ sqlite_sequence = 0
    /\ user = ""
    /\ issued = <<>>
    /\ created = <<>>
    /\ last = Idle
    /\ OutsideInit

UpdateLeaderboard(name, quantity) ==
    /\ Len(recorded) < MaxUpdates
    /\ \E r \in {update_leaderboard(leaderboard_file, name, quantity)} :
          /\ leaderboard_file' = r.file
          /\ entries' = r.ret
    /\ recorded' = Append(recorded, [user |-> name, quantity |-> quantity])
    /\ UNCHANGED <<orders, sqlite_sequence, user, issued, created, last, procs,
                   connection, response, constructed_on>>

LeaderboardNext ==
    \E name \in Names, quantity \in Quantities : UpdateLeaderboard(name, quantity)

SpecLeaderboard == LeaderboardInit /\ [][LeaderboardNext]_vars

(***************************************************************************)
(* The database file is an SQLite file that other programs can write (the  *)
(* unit tests set a row's timestamp that way).  Here some writer sets the  *)
(* metadata column of a stored row to text the ledger did not produce: the *)
(* empty text, or text that is no JSON document; the ledger creates orders *)
(* and reads them, one call at a time.                                     *)
(***************************************************************************)
ForeignBlobs == {<<>>, << <<"{">>, <<"str", "oops">> >>}

ForeignWrite(order_id, blob) ==
    /\ last = Idle
    /\ order_id \in Ids(orders)
    /\ orders' = [i \in 1..Len(orders) |->
                    IF orders[i].id = order_id
                    THEN [orders[i] EXCEPT !.metadata = blob]
                    ELSE orders[i]]
    /\ UNCHANGED <<sqlite_sequence, user, issued, created, last, outside>>

GetOrder(order_id) ==
    /\ last = Idle
    /\ last' = Call("get_order", "", order_id, "", None, 0, None, ClockStart,
                    get_order(orders, order_id))
    /\ UNCHANGED <<orders, sqlite_sequence, user, issued, created, outside>>

ForeignNext ==
    \/ \E utcnow \in ClockTimes, metadata \in MetadataInputs :
          CreateOrder(utcnow, metadata)
    \/ \E order_id \in OrderIdInputs, blob \in ForeignBlobs :
          ForeignWrite(order_id, blob)
    \/ \E order_id \in OrderIdInputs : GetOrder(order_id)
    \/ \E limit \in LimitInputs : GetHistory(limit)
    \/ Return

SpecForeignWrite == Init /\ [][ForeignNext]_vars

(***************************************************************************)
(* Construction, again and again, on one database path.  The path holds no *)
(* database at first (constructed_on = -1); every OrderStorage constructed *)
(* on it runs the schema script, and the web backend constructs one for    *)
(* each request.  constructed_on is the number of orders the database held *)
(* when the storage in use was constructed.                                *)
(***************************************************************************)
\* Mutant: the script drops the table and creates it anew.
initialize_schema_recreates(exists, tbl, seq) ==
    [orders |-> <<>>, seq |-> 0]

\* conn.executescript(SCHEMA_SQL): "CREATE TABLE IF NOT EXISTS orders" makes
\* the empty table, its AUTOINCREMENT counter unset, where there is none and
\* does nothing where there is one; the two indexes hold no data of their own.
initialize_schema(exists, tbl, seq) ==
    IF exists THEN [orders |-> tbl, seq |-> seq]
    ELSE [orders |-> <<>>, seq |-> 0]

ReopenInit ==
    /\ orders = <<>>
    /\ sqlite_sequence = 0
    /\ user = "dave"
    /\ issued = <<>>
    /\ created = <<>>
    /\ last = Idle
    /\ leaderboard_file = <<>>
    /\ recorded = <<>>
    /\ entries = <<>>
    /\ procs = <<>>
    /\ connection = <<>>
    /\ response = <<>>
    /\ constructed_on = -1

\* OrderStorage(db_path): self._initialize_schema().
Construct ==
    /\ last = Idle
    /\ \E r \in {initialize_schema(constructed_on >= 0, orders, sqlite_sequence)} :
          /\ orders' = r.orders
          /\ sqlite_sequence' = r.seq
          /\ constructed_on' = Len(r.orders)
    /\ last' = Call("construct", "", 0, "", None, 0, None, ClockStart, None)
    /\ UNCHANGED <<user, issued, created, leaderboard_file, recorded, entries, procs,
                   connection, response>>

ReopenNext ==
    \/ Construct
    \/ constructed_on >= 0 /\ \E metadata \in {None, Meta1} :
                                 CreateOrder(ClockStart, metadata)
    \/ constructed_on >= 0 /\ \E order_id \in OrderIdInputs :
                                 UpdateStatus(order_id, "delivered", None)
    \/ constructed_on >= 0 /\ \E order_id \in OrderIdInputs : GetOrder(order_id)
    \/ Return

SpecReopen == ReopenInit /\ [][ReopenNext]_vars

(***************************************************************************)
(* The web backend's handler of POST /orders/status, on the order service  *)
(* the server carries.  The server handles one request at a time.  The     *)
(* payload is the request's JSON object as _read_json decoded it; a JSON   *)
(* number with a fraction is <<"real", p, q>>, the float p/q.  response    *)
(* is the last request's payload with the status code and the body sent.   *)
(***************************************************************************)
\* int(x) of Python for a decoded JSON value: an int is itself, a bool is 1 or
\* 0, a float is truncated, a str is parsed as a decimal literal (ValueError
\* if it is none), None and containers raise TypeError.  The decimal literals
\* of the payloads below are "0", "1" and "2".
py_int(v) ==
    CASE v[1] = "num" -> <<"int", v[2]>>
      [] v[1] = "bool" -> <<"int", IF v[2] THEN 1 ELSE 0>>
      [] v[1] = "real" -> <<"int", v[2] \div v[3]>>
      [] v[1] = "str" -> (CASE v[2] = "0" -> <<"int", 0>>
                            [] v[2] = "1" -> <<"int", 1>>
                            [] v[2] = "2" -> <<"int", 2>>
                            [] OTHER -> ValueError)
      [] OTHER -> TypeError

\* str(x) for the status field: a str is itself, None is "None".
py_str(v) ==
    CASE v[1] = "str" -> v[2]
      [] v[1] = "null" -> "None"

\* OrderRecord.to_dict: the timestamp in UTC (the store's records are in UTC
\* already) as isoformat() text with "+00:00" replaced by "Z".
to_dict(record) ==
    LET text == isoformat(record.timestamp)
        n == Len(text)
    IN [id |-> record.order_id,
        timestamp |-> IF n >= 6 /\ SubSeq(text, n - 5, n) = <<43, 48, 48, 58, 48, 48>>
                      THEN SubSeq(text, 1, n - 6) \o <<90>>
                      ELSE text,
        user_id |-> record.user_id,
        status |-> record.status,
        metadata |-> record.metadata]

\* HTTPStatus.OK, BAD_REQUEST, NOT_FOUND.
HttpOk == 200
HttpBadRequest == 400
HttpNotFound == 404

\* do_POST for the path /orders/status.
post_orders_status(tbl, payload) ==
    With(py_int(DictGet(payload, "order_id", <<"num", 0>>)),
         LAMBDA order_id :
           IF Raised(order_id)
           THEN [orders |-> tbl, code |-> HttpBadRequest,
                 body |-> <<"error", "invalid_order_id">>]
           ELSE With(update_status(tbl, order_id[2],
                                   py_str(DictGet(payload, "status", <<"str", "">>)),
                                   DictGet(payload, "metadata", None)),
                     LAMBDA r :
                       IF r.ret = ValueError
                       THEN [orders |-> r.orders, code |-> HttpBadRequest,
                             body |-> <<"error", "invalid_status">>]
                       ELSE IF r.ret = None
                       THEN [orders |-> r.orders, code |-> HttpNotFound,
                             body |-> <<"error", "order_not_found">>]
                       ELSE [orders |-> r.orders, code |-> HttpOk,
                             body |-> <<"order", to_dict(r.ret[2])>>]))

\* The payloads: each field present or not.
Absent == <<"absent">>
OrderIdFields ==
    {Absent, None, <<"num", 0>>, <<"num", 1>>, <<"num", 2>>, <<"str", "abc">>,
     <<"str", "1">>, <<"real", 3, 2>>, <<"bool", TRUE>>}
StatusFields == {Absent, <<"str", "delivered">>, <<"str", "shipped">>}
MetadataFields == {Absent, Meta1}

Field(key, val) == IF val = Absent THEN <<>> ELSE << <<key, val>> >>

Payloads ==
    {<<"obj", Field("order_id", o) \o Field("status", s) \o Field("metadata", m)>> :
       o \in OrderIdFields, s \in StatusFields, m \in MetadataFields}

NoResponse == [payload |-> EmptyDict, code |-> 0, body |-> None]

HttpInit ==
    /\ orders = <<>>
    /\ sqlite_sequence = 0
    /\ user = "dave"
    /\ issued = <<>>
    /\ created = <<>>
    /\ last = Idle
    /\ leaderboard_file = <<>>
    /\ recorded = <<>>
    /\ entries = <<>>
    /\ procs = <<>>
    /\ connection = <<>>
    /\ response = NoResponse
    /\ constructed_on = 0

PostOrdersStatus(payload) ==
    /\ last = Idle
    /\ \E r \in {post_orders_status(orders, payload)} :
          /\ orders' = r.orders
          /\ response' = [payload |-> payload, code |-> r.code, body |-> r.body]
    /\ UNCHANGED <<sqlite_sequence, user, issued, created, last, leaderboard_file,
                   recorded, entries, procs, connection, constructed_on>>

\* An order is placed on the service meanwhile; requests answered before are
\* not held any longer.
HttpCreateOrder(metadata) ==
    /\ last = Idle
    /\ Len(orders) < MaxOrders
    /\ \E r \in {OrderService_create_order(orders, sqlite_sequence, ClockStart,
                                          user, metadata)} :
          /\ orders' = r.orders
          /\ sqlite_sequence' = r.seq
          /\ issued' = Append(issued, r.ret[2].order_id)
    /\ response' = NoResponse
    /\ UNCHANGED <<user, created, last, leaderboard_file, recorded, entries, procs,
                   connection, constructed_on>>

HttpNext ==
    \/ \E payload \in Payloads : PostOrdersStatus(payload)
    \/ \E metadata \in {None, Meta1} : HttpCreateOrder(metadata)

SpecHttp == HttpInit /\ [][HttpNext]_vars

(***************************************************************************)
(* Concurrent callers of one service.  The service holds no lock and no    *)
(* connection between statements: every `with self._connect()` block      *)
(* opens a connection, runs one statement, commits and closes, and SQLite  *)
(* runs each statement atomically.  A call is therefore a sequence of      *)
(* steps, one per connection, and the steps of different callers           *)
(* interleave.  procs[c] is caller c's call under way: where it is (pc),   *)
(* its arguments, what it has read so far (existing, weekly), how many     *)
(* connections it has opened (connects) and, when done, what it returns.   *)
(***************************************************************************)
Callers == {"c1", "c2"}

\* The order the callers contend for (id 1), and an id never issued.
SharedOrderIds == {0, 1}
SharedStatuses == {"requested", "delivered", "shipped"}
SharedMetadata == {None, Meta1}

Proc(pc, op, order_id, status, metadata, existing, weekly, connects, ret) ==
    [pc |-> pc, op |-> op, order_id |-> order_id, status |-> status,
     metadata |-> metadata, existing |-> existing, weekly |-> weekly,
     connects |-> connects, ret |-> ret]

NoCall == Proc("idle", "idle", 0, "", None, None, 0, 0, None)

ConcurrentInit ==
    /\ orders = <<>>
    /\ sqlite_sequence = 0
    /\ user = "dave"
    /\ issued = <<>>
    /\ created = <<>>
    /\ last = Idle
    /\ leaderboard_file = <<>>
    /\ recorded = <<>>
    /\ entries = <<>>
    /\ procs = [c \in Callers |-> NoCall]
    /\ connection = <<>>
    /\ response = <<>>
    /\ constructed_on = 0

\* create_order: one INSERT in one connection.
CreateStep(c) ==
    /\ procs[c].pc = "idle"
    /\ Len(orders) < MaxOrders
    /\ \E r \in {OrderService_create_order(orders, sqlite_sequence, ClockStart,
                                          user, None)} :
          /\ orders' = r.orders
          /\ sqlite_sequence' = r.seq
          /\ procs' = [procs EXCEPT
                         ![c] = Proc("done", "create_order", 0, "", None, None, 0, 1,
                                     r.ret)]
    /\ UNCHANGED <<user, issued, created, last, leaderboard_file, recorded, entries,
                   connection, response, constructed_on>>

\* Mutant: the order is looked up whatever the status.
validated_lookup_first(status) == TRUE

\* `if status not in ALLOWED_STATUSES: raise ValueError`, in update_status and
\* again in update_order_status, before storage is touched.
validated(status) == status \in ALLOWED_STATUSES

UpdateBegin(c, order_id, status, metadata) ==
    /\ procs[c].pc = "idle"
    /\ procs' = [procs EXCEPT
                   ![c] = IF validated(status)
                          THEN Proc("get_order", "update_status", order_id, status,
                                    metadata, None, 0, 0, None)
                          ELSE Proc("done", "update_status", order_id, status,
                                    metadata, None, 0, 0, ValueError)]
    /\ UNCHANGED <<orders, sqlite_sequence, user, issued, created, last,
                   leaderboard_file, recorded, entries, connection, response,
                   constructed_on>>

\* existing = self.get_order(order_id); `if not existing: return None`.
UpdateGetOrder(c) ==
    /\ procs[c].pc = "get_order"
    /\ \E existing \in {get_order(orders, procs[c].order_id)} :
          procs' = [procs EXCEPT
                      ![c] = IF existing = None \/ Raised(existing)
                             THEN [@ EXCEPT !.pc = "done", !.connects = @ + 1,
                                            !.ret = existing]
                             ELSE [@ EXCEPT !.pc = "update", !.connects = @ + 1,
                                            !.existing = existing]]
    /\ UNCHANGED <<orders, sqlite_sequence, user, issued, created, last,
                   leaderboard_file, recorded, entries, connection, response,
                   constructed_on>>

\* The UPDATE, with the metadata given or else the metadata read before.
UpdateWrite(c) ==
    /\ procs[c].pc = "update"
    /\ \E r \in {update_existing(orders, procs[c].order_id, procs[c].existing[2],
                                procs[c].status,
                                IF procs[c].metadata # None THEN procs[c].metadata
                                ELSE procs[c].existing[2].metadata)} :
          /\ orders' = r.orders
          /\ procs' = [procs EXCEPT
                         ![c] = [@ EXCEPT !.pc = "done", !.connects = @ + 1,
                                          !.ret = r.ret]]
    /\ UNCHANGED <<sqlite_sequence, user, issued, created, last,
                   leaderboard_file, recorded, entries, connection, response,
                   constructed_on>>

\* get_stats(): the week's start from the clock, then delivered_count_since.
StatsCountSince(c) ==
    /\ procs[c].pc = "idle"
    /\ procs' = [procs EXCEPT
                   ![c] = Proc("count", "get_stats", 0, "", None, None,
                               delivered_count_since(
                                   orders, rolling_week_start(None, ClockStart)),
                               1, None)]
    /\ UNCHANGED <<orders, sqlite_sequence, user, issued, created, last,
                   leaderboard_file, recorded, entries, connection, response,
                   constructed_on>>

\* ... then delivered_count, and the pair is returned.
StatsCount(c) ==
    /\ procs[c].pc = "count"
    /\ procs' = [procs EXCEPT
                   ![c] = [@ EXCEPT
                             !.pc = "done", !.connects = @ + 1,
                             !.ret = <<"stats",
                                       [weekly_delivered |-> procs[c].weekly,
                                        all_time_delivered |->
                                            delivered_count(orders)]>>]]
    /\ UNCHANGED <<orders, sqlite_sequence, user, issued, created, last,
                   leaderboard_file, recorded, entries, connection, response,
                   constructed_on>>

\* The caller takes the result and is free to call again.
Finish(c) ==
    /\ procs[c].pc = "done"
    /\ procs' = [procs EXCEPT ![c] = NoCall]
    /\ UNCHANGED <<orders, sqlite_sequence, user, issued, created, last,
                   leaderboard_file, recorded, entries, connection, response,
                   constructed_on>>

ConcurrentNext ==
    \E c \in Callers :
       \/ CreateStep(c)
       \/ \E order_id \in SharedOrderIds, status \in SharedStatuses,
             metadata \in SharedMetadata : UpdateBegin(c, order_id, status, metadata)
       \/ UpdateGetOrder(c)
       \/ UpdateWrite(c)
       \/ StatsCountSince(c)
       \/ StatsCount(c)
       \/ Finish(c)

SpecConcurrent == ConcurrentInit /\ [][ConcurrentNext]_vars

(***************************************************************************)
(* One store operation at a time, statement by statement.  Every operation *)
(* of OrderStorage does its work in `with self._connect() as conn` blocks: *)
(* the block opens a connection, its body runs a statement on it, and on   *)
(* leaving the block the connection commits if the body ended normally and *)
(* is closed either way.  A connection sees its own uncommitted statement  *)
(* (pending); the table changes at the commit.  The environment chooses    *)
(* what goes wrong in the operation's last block: nothing, the statement   *)
(* raises sqlite3.OperationalError (execute), an exception arrives in the  *)
(* body after the statement has run (interrupt), or the commit raises.     *)
(***************************************************************************)
OperationalError == <<"raise", "OperationalError">>
KeyboardInterrupt == <<"raise", "KeyboardInterrupt">>

\* json.dumps writes None, bool, numbers, str, lists and dicts, and raises
\* TypeError for any other object.
RECURSIVE Serializable(_)
Serializable(v) ==
    CASE v[1] \in {"null", "bool", "num", "str"} -> TRUE
      [] v[1] = "arr" -> \A i \in 1..Len(v[2]) : Serializable(v[2][i])
      [] v[1] = "obj" -> \A i \in 1..Len(v[2]) : Serializable(v[2][i][2])
      [] OTHER -> FALSE

\* A metadata map holding a Python set: {"tags": {"a"}}.
Unserializable == <<"obj", << <<"tags", <<"set", << <<"str", "a">> >> >> >> >> >>

StoreMetadata == {None, Meta1, Unserializable}
StoreStatuses == {"delivered", "shipped"}
Faults == {"none", "execute", "interrupt", "commit"}

\* Mutant: no try/finally, an exception in the body skips the close.
connect_exit_no_finally(body_raised) ==
    [commit |-> ~body_raised, close |-> ~body_raised]

\* Mutant: the commit has moved into the finally clause.
connect_exit_commit_in_finally(body_raised) ==
    [commit |-> TRUE, close |-> TRUE]

\* _connect after the yield: `conn.commit()` follows the body inside the try,
\* so it runs only if the body did not raise; `conn.close()` is the finally.
connect_exit(body_raised) ==
    [commit |-> ~body_raised, close |-> TRUE]

\* The operation under way: its arguments, the fault the environment has
\* chosen, the block it is in, its connection (open, pending, pending_seq),
\* what its body read or raised, the table as the call found it, the number
\* of mutating statements it has issued, and what it returns.
NoStoreCall ==
    [pc |-> "idle", op |-> "idle", order_id |-> 0, status |-> "", metadata |-> None,
     limit |-> 0, fault |-> "none", block |-> "", open |-> FALSE, pending |-> <<>>,
     pending_seq |-> 0, existing |-> None, raised |-> None, result |-> None,
     before |-> <<>>, statements |-> 0, ret |-> None]

ConnectionInit ==
    /\ orders = <<>>
    /\ sqlite_sequence = 0
    /\ user = "dave"
    /\ issued = <<>>
    /\ created = <<>>
    /\ last = Idle
    /\ leaderboard_file = <<>>
    /\ recorded = <<>>
    /\ entries = <<>>
    /\ procs = <<>>
    /\ connection = NoStoreCall
    /\ response = <<>>
    /\ constructed_on = 0

\* The block the faults are injected in: the operation's only block, or the
\* UPDATE block of update_order_status.
LastBlock(c) == c.op # "update_order_status" \/ c.block = "update"

\* The call, up to its first `with` block: create_order serializes the
\* metadata and update_order_status validates the status before either opens
\* a connection.
StoreCall(op, order_id, status, metadata, limit, fault) ==
    /\ connection.pc = "idle"
    /\ op = "create_order" => Len(orders) < MaxOrders
    /\ connection' =
          With([NoStoreCall EXCEPT !.op = op, !.order_id = order_id,
                                   !.status = status, !.metadata = metadata,
                                   !.limit = limit, !.fault = fault,
                                   !.open = connection.open, !.before = orders],
               LAMBDA c :
                 IF /\ op = "create_order"
                    /\ ~Serializable(IF Truthy(metadata) THEN metadata ELSE EmptyDict)
                 THEN [c EXCEPT !.pc = "done", !.ret = TypeError]
                 ELSE IF op = "update_order_status" /\ status \notin ALLOWED_STATUSES
                 THEN [c EXCEPT !.pc = "done", !.ret = ValueError]
                 ELSE [c EXCEPT !.pc = "connect",
                                !.block = IF op = "create_order" THEN "insert"
                                          ELSE "select"])
    /\ UNCHANGED <<orders, sqlite_sequence, user, issued, created, last,
                   leaderboard_file, recorded, entries, procs, response,
                   constructed_on>>

\* conn = sqlite3.connect(self._db_path)
StoreConnect ==
    /\ connection.pc = "connect"
    /\ connection' = [connection EXCEPT !.pc = "body", !.open = TRUE,
                                        !.pending = orders,
                                        !.pending_seq = sqlite_sequence,
                                        !.raised = None, !.result = None]
    /\ UNCHANGED <<orders, sqlite_sequence, user, issued, created, last,
                   leaderboard_file, recorded, entries, procs, response,
                   constructed_on>>

\* What the query of a reading block may return.
ReadResults(c) ==
    CASE c.op \in {"get_order", "update_order_status"} ->
             {get_order(c.pending, c.order_id)}
      [] c.op = "list_orders" -> list_orders(c.pending, c.limit)
      [] c.op = "delivered_count" -> {<<"count", delivered_count(c.pending)>>}
      [] c.op = "delivered_count_since" ->
             {<<"count", delivered_count_since(c.pending, ClockStart)>>}

\* The statement of a writing block, on the connection.  The arguments of
\* conn.execute are evaluated first: json.dumps(new_metadata) of the UPDATE
\* raises its TypeError before the statement is issued.
WriteStatement(c) ==
    CASE c.block = "insert" ->
             IF c.fault = "execute" THEN [c EXCEPT !.raised = OperationalError]
             ELSE With(create_order(c.pending, c.pending_seq, ClockStart,
                                    OrderCreateRequest(user, c.metadata)),
                       LAMBDA r : [c EXCEPT !.pending = r.orders,
                                            !.pending_seq = r.seq,
                                            !.statements = @ + 1,
                                            !.result = r.ret])
      [] c.block = "update" ->
             With(IF c.metadata # None THEN c.metadata ELSE c.existing[2].metadata,
                  LAMBDA new_metadata :
                    IF ~Serializable(new_metadata) THEN [c EXCEPT !.raised = TypeError]
                    ELSE IF c.fault = "execute"
                    THEN [c EXCEPT !.raised = OperationalError]
                    ELSE With(update_existing(c.pending, c.order_id, c.existing[2],
                                              c.status, new_metadata),
                              LAMBDA r : [c EXCEPT !.pending = r.orders,
                                                   !.statements = @ + 1,
                                                   !.result = r.ret]))

\* The body of the `with` block.
StoreBody ==
    /\ connection.pc = "body"
    /\ \E res \in (IF connection.block = "select" THEN ReadResults(connection)
                   ELSE {None}) :
          connection' =
             With(IF connection.block = "select"
                  THEN IF LastBlock(connection) /\ connection.fault = "execute"
                       THEN [connection EXCEPT !.raised = OperationalError]
                       ELSE [connection EXCEPT !.result = res]
                  ELSE WriteStatement(connection),
                  LAMBDA c :
                    IF /\ c.raised = None
                       /\ LastBlock(c)
                       /\ c.fault = "interrupt"
                    THEN [c EXCEPT !.pc = "exit", !.raised = KeyboardInterrupt]
                    ELSE [c EXCEPT !.pc = "exit"])
    /\ UNCHANGED <<orders, sqlite_sequence, user, issued, created, last,
                   leaderboard_file, recorded, entries, procs, response,
                   constructed_on>>

\* Leaving the block: commit and close as _connect does them, then the rest
\* of the operation: the exception goes to the caller, update_order_status
\* goes on to its UPDATE block if the order exists, any other operation
\* returns what it read or wrote.
StoreExit ==
    /\ connection.pc = "exit"
    /\ \E x \in {connect_exit(connection.raised # None)} :
          LET commit_raises == /\ x.commit
                               /\ LastBlock(connection)
                               /\ connection.fault = "commit"
              committed == x.commit /\ ~commit_raises
              raised == IF commit_raises THEN OperationalError
                        ELSE connection.raised
          IN /\ orders' = IF committed THEN connection.pending ELSE orders
             /\ sqlite_sequence' = IF committed THEN connection.pending_seq
                                   ELSE sqlite_sequence
             /\ connection' =
                   With([connection EXCEPT !.open = ~x.close, !.raised = raised],
                        LAMBDA c :
                          IF raised # None THEN [c EXCEPT !.pc = "done", !.ret = raised]
                          ELSE IF c.op = "update_order_status" /\ c.block = "select"
                          THEN IF c.result = None \/ Raised(c.result)
                               THEN [c EXCEPT !.pc = "done", !.ret = c.result]
                               ELSE [c EXCEPT !.pc = "connect", !.block = "update",
                                              !.existing = c.result]
                          ELSE [c EXCEPT !.pc = "done", !.ret = c.result])
    /\ UNCHANGED <<user, issued, created, last, leaderboard_file, recorded, entries,
                   procs, response, constructed_on>>

\* The caller has the result, or the exception.
StoreReturn ==
    /\ connection.pc = "done"
    /\ connection' = [NoStoreCall EXCEPT !.open = connection.open]
    /\ UNCHANGED <<orders, sqlite_sequence, user, issued, created, last,
                   leaderboard_file, recorded, entries, procs, response,
                   constructed_on>>

ConnectionNext ==
    \/ \E metadata \in StoreMetadata, fault \in Faults :
          StoreCall("create_order", 0, "", metadata, 0, fault)
    \/ \E order_id \in SharedOrderIds, status \in StoreStatuses,
          metadata \in StoreMetadata, fault \in Faults :
          StoreCall("update_order_status", order_id, status, metadata, 0, fault)
    \/ \E op \in {"get_order", "list_orders", "delivered_count",
                  "delivered_count_since"}, fault \in Faults :
          StoreCall(op, 1, "", None, 1, fault)
    \/ StoreConnect
    \/ StoreBody
    \/ StoreExit
    \/ StoreReturn

SpecConnection == ConnectionInit /\ [][ConnectionNext]_vars

(***************************************************************************)
(* The claims.  A step is a call when it leaves the idle state: last' then *)
(* records the call and what it returned, the unprimed variables are the   *)
(* state the call found.  Every value the table takes is the table of a    *)
(* state between calls (last = Idle): a call's state is followed by the    *)
(* return, which leaves the table alone.  The properties of the table as   *)
(* such are therefore stated for the states between calls.                 *)
(***************************************************************************)
IsCall(op) == last.op = op
Returned == last.ret[1] = "record"

\* The vocabulary as the specification spells it.
Vocabulary == {"requested", "in_progress", "delivered", "cancelled"}

\* The row of the table with the given id, decoded as get_order decodes it.
Stored(tbl, order_id) == get_order(tbl, order_id)

\* C1: create_order returns an order of status "requested" whose metadata is
\* the supplied map, or the empty map when the metadata is None; the row it
\* stored has status "requested" too.
C1_CreateRequested ==
    IsCall("create_order") =>
        /\ Returned
        /\ last.ret[2].status = "requested"
        /\ last.ret[2].user_id = last.user_id
        /\ last.ret[2].metadata = (IF last.metadata = None THEN EmptyDict
                                   ELSE last.metadata)
        /\ \A i \in 1..Len(orders) :
              orders[i].id = last.ret[2].order_id => orders[i].status = "requested"

\* An order for the empty user id without metadata, and one with metadata,
\* have been created.
C1_Witness ==
    /\ IsCall("create_order")
    /\ last.user_id = ""
    /\ last.metadata = Meta1
    /\ Len(orders) = 2
    /\ orders[1].metadata = json_dumps(EmptyDict)

\* C2: the ids create_order returned are strictly increasing in call order (so
\* each differs from every id issued before it), and so are the ids of the
\* rows in insertion order; the last id returned is the newest row's.
C2_IdsFreshIncreasing ==
    /\ \A i, j \in 1..Len(issued) : i < j => issued[i] < issued[j]
    /\ \A i, j \in 1..Len(orders) : i < j => orders[i].id < orders[j].id
    /\ Len(issued) = Len(orders)
    /\ \A i \in 1..Len(orders) : orders[i].id = issued[i]
    /\ IsCall("create_order") => last.ret[2].order_id = issued[Len(issued)]

\* A second order was created after the first had been updated.
C2_Witness ==
    /\ IsCall("create_order")
    /\ Len(issued) = 2
    /\ orders[1].status = "delivered"

\* C3: update_status on an existing order with a status outside the vocabulary
\* raises ValueError and leaves the table as it was.
C3_InvalidStatusRejected ==
    [][(/\ last = Idle
        /\ last'.op = "update_status"
        /\ last'.status \notin Vocabulary
        /\ last'.order_id \in Ids(orders))
       => (last'.ret = ValueError /\ orders' = orders)]_vars

\* An update of an existing order, with metadata, to "shipped" was refused.
C3_Witness ==
    /\ IsCall("update_status")
    /\ last.status = "shipped"
    /\ last.order_id \in Ids(orders)
    /\ last.metadata = Meta1
    /\ last.ret = ValueError

\* C4: update_status with an allowed status on an id never issued returns None
\* and leaves the table as it was.
C4_UnknownIdNoWrite ==
    [][(/\ last = Idle
        /\ last'.op = "update_status"
        /\ last'.status \in Vocabulary
        /\ \A i \in 1..Len(issued) : issued[i] # last'.order_id)
       => (last'.ret = None /\ orders' = orders)]_vars

\* An update of an id never issued returned None on a table that holds rows.
C4_Witness ==
    /\ IsCall("update_status")
    /\ last.status = "delivered"
    /\ last.metadata = Meta1
    /\ last.order_id \notin Ids(orders)
    /\ Len(orders) > 0
    /\ last.ret = None

\* C5: update_status of an existing order with an allowed status stores the
\* status; it stores the metadata given, whatever the row held, and leaves the
\* row's metadata as it was when the metadata is None.
C5_MetadataReplacedOrKept ==
    [][(/\ last = Idle
        /\ last'.op = "update_status"
        /\ last'.status \in Vocabulary
        /\ last'.order_id \in Ids(orders))
       => \A after \in {Stored(orders', last'.order_id)} :
             /\ after[1] = "record"
             /\ after[2].status = last'.status
             /\ after[2].metadata =
                   (IF last'.metadata = None
                    THEN Stored(orders, last'.order_id)[2].metadata
                    ELSE last'.metadata)]_vars

\* An order holding metadata was updated with the empty map.
C5_Witness ==
    /\ IsCall("update_status")
    /\ Returned
    /\ last.metadata = EmptyDict
    /\ last.status = "in_progress"
    /\ \E i \in 1..Len(orders) :
          orders[i].id # last.order_id /\ orders[i].metadata = json_dumps(Meta1)

\* Timestamps of a sequence of records, first to last, never increase.
NonIncreasing(recs) ==
    \A i, j \in 1..Len(recs) : i < j => DtLeq(recs[j].timestamp, recs[i].timestamp)

\* C6: for every limit n >= 0, whatever list_orders(n) returns holds at most n
\* orders, their timestamps non-increasing; so does what get_history returned.
C6_ListBoundedSorted ==
    /\ last = Idle =>
          \A n \in {k \in LimitInputs : k >= 0} :
             \A res \in list_orders(orders, n) :
                res[1] = "rows" /\ Len(res[2]) <= n /\ NonIncreasing(res[2])
    /\ (IsCall("get_history") /\ last.limit >= 0) =>
          /\ last.ret[1] = "rows"
          /\ Len(last.ret[2]) <= last.limit
          /\ NonIncreasing(last.ret[2])

\* get_history(1) returned the later of two orders of different timestamps.
C6_Witness ==
    /\ IsCall("get_history")
    /\ last.limit = 1
    /\ Len(orders) = 2
    /\ orders[1].timestamp # orders[2].timestamp
    /\ Len(last.ret[2]) = 1
    /\ last.ret[2][1].order_id = 2

\* C7: a history lists an order created later before one created earlier.
\* (Ids grow with creation, so: ids decrease along every history.)
C7_MostRecentFirst ==
    IsCall("get_history") =>
        \A i, j \in 1..Len(last.ret[2]) :
            i < j => last.ret[2][i].order_id > last.ret[2][j].order_id

\* C8: for every threshold t, delivered_count_since(t) <= delivered_count();
\* so the weekly count get_stats returns is at most its all-time count.
Thresholds ==
    ClockTimes \cup {rolling_week_start(now, ClockStart) : now \in NowInputs}

C8_SinceAtMostAll ==
    /\ last = Idle =>
          \A t \in Thresholds :
             delivered_count_since(orders, t) <= delivered_count(orders)
    /\ IsCall("get_stats") =>
          last.ret[2].weekly_delivered <= last.ret[2].all_time_delivered

\* get_stats counted one of two delivered orders in the week.
C8_Witness ==
    /\ IsCall("get_stats")
    /\ last.ret[2].weekly_delivered = 1
    /\ last.ret[2].all_time_delivered = 2

\* C9: get_stats(now) returns the number of delivered orders, and the number
\* of those created at or after now minus seven days.
DeliveredSince(tbl, t) ==
    Cardinality({i \in 1..Len(tbl) :
                   /\ tbl[i].status = "delivered"
                   /\ DtLeq(t, fromisoformat(tbl[i].timestamp))})

C9_StatsCountWindow ==
    IsCall("get_stats") =>
        /\ last.ret[2].all_time_delivered =
              Cardinality({i \in 1..Len(orders) : orders[i].status = "delivered"})
        /\ last.ret[2].weekly_delivered =
              DeliveredSince(orders, rolling_week_start(last.now, last.utcnow))

\* JSON-compatible values of nesting depth one, and the maps of up to two keys
\* that hold them.
JsonScalars == {None, <<"bool", TRUE>>, <<"bool", FALSE>>, <<"num", 1>>, <<"str", "x">>}
JsonValues ==
    JsonScalars
    \cup {<<"arr", <<>>>>, EmptyDict}
    \cup {<<"arr", <<v, None>>>> : v \in JsonScalars}
    \cup {<<"obj", << <<"k", v>> >> >> : v \in JsonScalars}
JsonMaps ==
    {EmptyDict}
    \cup {<<"obj", << <<"a", v>> >> >> : v \in JsonValues}
    \cup {<<"obj", << <<"a", v>>, <<"b", w>> >> >> : v, w \in JsonValues}

\* What get_order and every list_orders answer give as the order's metadata.
ReadBack(tbl, order_id) ==
    {Stored(tbl, order_id)} \cup
    {IF res[1] = "rows"
     THEN <<"record", res[2][CHOOSE i \in 1..Len(res[2]) : res[2][i].order_id = order_id]>>
     ELSE res : res \in list_orders(tbl, -1)}

ReadsBackAs(tbl, order_id, metadata) ==
    \A rec \in ReadBack(tbl, order_id) : rec[1] = "record" /\ rec[2].metadata = metadata

\* The metadata create_order and update_status can be given here.
Maps == MetadataInputs \ {None}

\* C10: metadata written by create_order or update_status reads back, through
\* get_order and list_orders, equal to what was written: for the call just
\* made, for every write that can be made between calls, and on the empty
\* ledger for every map of JsonMaps.
C10_MetadataRoundTrip ==
    /\ (IsCall("create_order") /\ last.metadata # None) =>
          Stored(orders, last.ret[2].order_id)[2].metadata = last.metadata
    /\ (IsCall("update_status") /\ Returned /\ last.metadata # None) =>
          Stored(orders, last.order_id)[2].metadata = last.metadata
    /\ last = Idle =>
          \A M \in (IF orders = <<>> THEN JsonMaps ELSE Maps) :
             /\ Len(orders) < MaxOrders =>
                   LET made == OrderService_create_order(orders, sqlite_sequence,
                                                         ClockStart, user, M)
                   IN ReadsBackAs(made.orders, made.ret[2].order_id, M)
             /\ \A id \in Ids(orders) :
                   ReadsBackAs(update_status(orders, id, "delivered", M).orders, id, M)
    /\ (last = Idle /\ orders = <<>>) =>
          \A M \in JsonMaps :
             LET made == OrderService_create_order(orders, sqlite_sequence,
                                                   ClockStart, user, Meta1)
             IN ReadsBackAs(update_status(made.orders, made.ret[2].order_id,
                                          "delivered", M).orders,
                            made.ret[2].order_id, M)

\* Nested metadata was written by update_status over an order made without.
C10_Witness ==
    /\ IsCall("update_status")
    /\ Returned
    /\ last.metadata = Meta1
    /\ Len(orders) = 2
    /\ \E i \in 1..Len(orders) :
          orders[i].id = last.order_id /\ orders[i].metadata = json_dumps(Meta1)

\* The id, creation timestamp and user of a record are those create_order
\* returned for the order of that id.
AsCreated(rec) ==
    \E i \in 1..Len(created) :
       /\ created[i].order_id = rec.order_id
       /\ created[i].timestamp = rec.timestamp
       /\ created[i].user_id = rec.user_id

\* C11: whatever calls were made, each order read from storage (by get_order,
\* in a history, or as update_status returns it) has the id, the timestamp and
\* the user_id that the create_order call that created it returned.
C11_IdentityImmutable ==
    /\ last = Idle =>
          \A i \in 1..Len(created) :
             LET rec == Stored(orders, created[i].order_id)
             IN /\ rec[1] = "record"
                /\ rec[2].order_id = created[i].order_id
                /\ rec[2].timestamp = created[i].timestamp
                /\ rec[2].user_id = created[i].user_id
    /\ (IsCall("update_status") /\ Returned) => AsCreated(last.ret[2])
    /\ IsCall("get_history") =>
          /\ last.ret[1] = "rows"
          /\ \A k \in 1..Len(last.ret[2]) : AsCreated(last.ret[2][k])

\* A history read two orders back after the first, created at a microsecond
\* that is not zero, had been given another status and other metadata.
C11_Witness ==
    /\ IsCall("get_history")
    /\ Len(last.ret[2]) = 2
    /\ created[1].timestamp.us = 1
    /\ created[1].user_id = "dave"
    /\ orders[1].status = "cancelled"
    /\ orders[1].metadata = json_dumps(Meta1)

\* The NULL of a column, and the JSON text of an absent value.
NullText == <<>>
JsonNull == json_dumps(None)

\* C12: every stored order has an id, a timestamp and a user_id that are not
\* null, a status of the vocabulary, and metadata that is neither NULL nor the
\* JSON null: between calls it decodes to a map.
C12_RowsWellFormed ==
    \A i \in 1..Len(orders) :
       /\ orders[i].id >= 1
       /\ orders[i].timestamp # NullText
       /\ fromisoformat(orders[i].timestamp) \in ClockTimes
       /\ orders[i].user_id \in UserIds
       /\ orders[i].status \in Vocabulary
       /\ orders[i].metadata # NullText
       /\ orders[i].metadata # JsonNull
       /\ last = Idle => json_loads(orders[i].metadata)[1] = "obj"

\* An order created without metadata was updated without metadata.
C12_Witness ==
    /\ IsCall("update_status")
    /\ Returned
    /\ last.metadata = None
    /\ last.status = "in_progress"
    /\ \E i \in 1..Len(orders) :
          /\ orders[i].id = last.order_id
          /\ orders[i].metadata = json_dumps(EmptyDict)
          /\ orders[i].user_id = ""

\* C13: while no stored order has the status "delivered" (so on the new
\* database, and after create_order calls and updates to other statuses only),
\* get_stats returns 0 for the week and 0 for all time.
C13_NoDeliveryNoCount ==
    (IsCall("get_stats") /\ \A i \in 1..Len(orders) : orders[i].status # "delivered")
       => /\ last.ret[2].all_time_delivered = 0
          /\ last.ret[2].weekly_delivered = 0

\* get_stats() was called, the clock read, on a ledger of two orders created
\* this week, neither delivered.
C13_Witness ==
    /\ IsCall("get_stats")
    /\ last.now = None
    /\ Len(orders) = 2
    /\ \A i \in 1..Len(orders) : orders[i].status = "requested"
    /\ last.ret[2] = [weekly_delivered |-> 0, all_time_delivered |-> 0]

\* The names callers give, grouped into those that differ in case only.
NameClasses == {{"Alice", "alice", "ALICE"}, {"Bob"}}
ClassOf(name) == CHOOSE c \in NameClasses : name \in c

\* The sum of the quantities recorded for the names of a class.
RECURSIVE TotalFor(_, _)
TotalFor(updates, class) ==
    IF updates = <<>> THEN 0
    ELSE LET head == updates[1]
         IN (IF head.user \in class THEN head.quantity ELSE 0)
            + TotalFor(Tail(updates), class)

EntryName(item) == DictGet(item, "name", <<"str", "">>)[2]

\* The list the leaderboard file holds.
StoredLeaderboard ==
    DictGet(load_json(leaderboard_file, EmptyDict), "leaderboard", <<"arr", <<>>>>)[2]

\* C14: after any updates of the file, the list returned is the list stored;
\* it has exactly one entry for each name recorded, names taken without regard
\* to case, and none besides; the entry's count is the sum of the quantities
\* recorded for the name; counts do not increase along the list.
C14_LeaderboardTotals ==
    Len(recorded) > 0 =>
       LET classes == {ClassOf(recorded[i].user) : i \in 1..Len(recorded)}
       IN /\ StoredLeaderboard = entries
          /\ Len(entries) = Cardinality(classes)
          /\ \A class \in classes :
                \E i \in 1..Len(entries) :
                   /\ EntryName(entries[i]) \in class
                   /\ CountOf(entries[i]) = TotalFor(recorded, class)
                   /\ \A j \in 1..Len(entries) :
                         EntryName(entries[j]) \in class => j = i
          /\ \A i, j \in 1..Len(entries) :
                i < j => CountOf(entries[i]) >= CountOf(entries[j])

\* Alice 1, Bob 2, then alice 2: Alice leads with 3, in one entry.
C14_Witness ==
    /\ recorded = <<[user |-> "Alice", quantity |-> 1],
                    [user |-> "Bob", quantity |-> 2],
                    [user |-> "alice", quantity |-> 2]>>
    /\ Len(entries) = 2
    /\ EntryName(entries[1]) = "Alice"
    /\ CountOf(entries[1]) = 3
    /\ EntryName(entries[2]) = "Bob"

\* C16: update_status of an existing order to a status of the vocabulary
\* succeeds whatever status the order had (the same one, or delivered or
\* cancelled with requested as the target): the record returned and the
\* stored row have the target status.
C16_AnyTransition ==
    (/\ IsCall("update_status")
     /\ last.status \in Vocabulary
     /\ last.order_id \in Ids(orders))
    => /\ Returned
       /\ last.ret[2].status = last.status
       /\ \A i \in 1..Len(orders) :
             orders[i].id = last.order_id => orders[i].status = last.status

\* An update gave the first order, which holds metadata from an earlier update
\* or its creation, the status requested; the second order is cancelled.
C16_Witness ==
    /\ IsCall("update_status")
    /\ Returned
    /\ last.order_id = 1
    /\ last.status = "requested"
    /\ Len(orders) = 2
    /\ orders[1].metadata = json_dumps(Meta1)
    /\ orders[2].status = "cancelled"

\* C17: no order is deleted: the ids stored are the ids create_order has
\* returned, and get_order of each of them returns a record.
C17_NeverDeleted ==
    /\ Ids(orders) = {issued[i] : i \in 1..Len(issued)}
    /\ Len(orders) = Len(issued)
    /\ last = Idle =>
          \A i \in 1..Len(issued) :
             LET rec == Stored(orders, issued[i])
             IN rec # None /\ rec[1] = "record" /\ rec[2].order_id = issued[i]

\* Two orders are stored after updates of both and reads of the history.
C17_Witness ==
    /\ last = Idle
    /\ Len(issued) = 2
    /\ orders[1].status = "cancelled"
    /\ orders[2].status = "delivered"
    /\ Stored(orders, 1)[1] = "record"

\* A stored blob that is empty or is no JSON document.
Undecodable(blob) == blob = <<>> \/ Raised(json_loads(blob))

\* C18: get_order and list_orders do not raise on a row whose metadata blob is
\* empty or no JSON: they return the row with the empty map as its metadata,
\* and the other rows with theirs.
C18_DefensiveDecode ==
    /\ (IsCall("get_order") /\ last.order_id \in Ids(orders)) =>
          /\ Returned
          /\ \A i \in 1..Len(orders) :
                (orders[i].id = last.order_id /\ Undecodable(orders[i].metadata))
                   => last.ret[2].metadata = EmptyDict
    /\ IsCall("get_history") =>
          /\ last.ret[1] = "rows"
          /\ \A k \in 1..Len(last.ret[2]) :
                \A i \in 1..Len(orders) :
                   (orders[i].id = last.ret[2][k].order_id
                    /\ Undecodable(orders[i].metadata))
                      => last.ret[2][k].metadata = EmptyDict

\* C15: a call of update_status with a status outside the vocabulary ends in
\* the validation error, on an id that does not exist too (where a valid
\* status gets the absent result), and opens no connection: it never reaches
\* the lookup or the write.
C15_ValidationFirst ==
    \A c \in Callers :
       (procs[c].op = "update_status" /\ procs[c].status \notin Vocabulary)
          => /\ procs[c].pc = "done"
             /\ procs[c].ret = ValueError
             /\ procs[c].ret # None
             /\ procs[c].connects = 0

\* Of two calls on the id never issued, made while an order is stored, the one
\* with the status "shipped" got the error, the one with "delivered" got None
\* after one connection.
C15_Witness ==
    /\ Len(orders) > 0
    /\ procs["c1"] = Proc("done", "update_status", 0, "shipped", Meta1, None, 0, 0,
                          ValueError)
    /\ procs["c2"] = Proc("done", "update_status", 0, "delivered", Meta1, None, 0, 1,
                          None)

\* C19: the write of an update_status call that was given no metadata leaves
\* the stored metadata of every order as it is, whatever other callers have
\* written since the call began.
C19_NoMetadataNoChange ==
    [][\A c \in Callers :
          (procs[c].pc = "update" /\ procs[c].metadata = None
           /\ procs'[c].pc = "done")
             => \A i \in 1..Len(orders) : orders'[i].metadata = orders[i].metadata]_vars

\* C20: in every pair get_stats returns, the week's count is at most the
\* all-time count, whatever other callers did between the two queries.
C20_StatsSnapshot ==
    \A c \in Callers :
       (procs[c].op = "get_stats" /\ procs[c].pc = "done")
          => procs[c].ret[2].weekly_delivered <= procs[c].ret[2].all_time_delivered

\* C21: a store operation runs inside one connection: a create_order or
\* update_status call that has finished opened at most one, and while an
\* update is between its existence read and its write the row it read is
\* still the row stored.
C21_OneTransaction ==
    \A c \in Callers :
       /\ (procs[c].pc = "done" /\ procs[c].op \in {"create_order", "update_status"})
             => procs[c].connects <= 1
       /\ procs[c].pc = "update"
             => get_order(orders, procs[c].order_id) = procs[c].existing

\* C22: no connection is open between the blocks of an operation or between
\* operations, whether the block ended normally or in an exception; leaving a
\* block whose body raised changes neither the table nor its id counter, and
\* leaving one whose body ended normally commits what the connection holds,
\* unless the commit itself fails.
C22_ClosedCommitOnSuccess ==
    /\ [](connection.pc \in {"idle", "connect", "done"} => ~connection.open)
    /\ [][connection.pc = "exit" =>
            IF connection.raised # None
            THEN orders' = orders /\ sqlite_sequence' = sqlite_sequence
            ELSE \/ orders' = connection.pending
                 \/ connection'.ret = OperationalError /\ orders' = orders]_vars

\* An exception arrived after the INSERT had run on the connection: the
\* operation has ended with it, the connection is closed and the table does
\* not hold the row.
C22_Witness ==
    /\ connection.pc = "done"
    /\ connection.op = "create_order"
    /\ connection.ret = KeyboardInterrupt
    /\ connection.statements = 1
    /\ Len(connection.pending) = Len(orders) + 1
    /\ ~connection.open

\* C23: a store operation issues at most one mutating statement, and one that
\* ends with an error (ValueError for the status, TypeError for the metadata,
\* a failure of the statement or of the commit, an exception in the body)
\* leaves the orders table as the call found it.
C23_NoPartialWrite ==
    /\ connection.statements <= 1
    /\ (connection.pc = "done" /\ Raised(connection.ret))
          => orders = connection.before

\* An update of a stored order with metadata json.dumps cannot write has
\* ended in TypeError, after its existence read and in its UPDATE block.
C23_Witness ==
    /\ connection.pc = "done"
    /\ connection.op = "update_order_status"
    /\ connection.ret = TypeError
    /\ connection.existing # None
    /\ connection.status = "delivered"
    /\ orders = connection.before
    /\ Len(orders) > 0

\* C24: for every threshold t, delivered_count_since(t) is the number of
\* stored orders of status "delivered" created at the instant t or later.
C24_CountSinceExact ==
    last = Idle =>
        \A t \in Thresholds :
           delivered_count_since(orders, t) = DeliveredSince(orders, t)

\* C25: constructing a storage on a database that exists leaves the table
\* and every order in it as they were, each order readable; and the id of an
\* order created afterwards, as of any order created, is greater than every
\* id in the table and every id issued before.
C25_SchemaIdempotent ==
    [][/\ (last = Idle /\ last'.op = "construct" /\ constructed_on >= 0)
             => /\ orders' = orders
                /\ \A id \in Ids(orders) :
                      /\ Stored(orders', id) = Stored(orders, id)
                      /\ Stored(orders', id)[1] = "record"
       /\ (last = Idle /\ last'.op = "create_order")
             => /\ \A i \in 1..Len(orders) : orders[i].id < last'.ret[2].order_id
                /\ \A i \in 1..Len(issued) : issued[i] < last'.ret[2].order_id]_vars

\* A storage constructed on a database holding one order, a delivered one, has
\* created the second order, of id 2.
C25_Witness ==
    /\ IsCall("create_order")
    /\ constructed_on = 1
    /\ Len(orders) = 2
    /\ orders[1].status = "delivered"
    /\ last.ret[2].order_id = 2

\* C26: the record create_order returned, and the record a successful
\* update_status returned, is the record get_order reads for the same id from
\* the table the call left: id, timestamp, user_id, status and metadata agree.
C26_ReturnedIsStored ==
    /\ IsCall("create_order") => last.ret = Stored(orders, last.ret[2].order_id)
    /\ (IsCall("update_status") /\ Returned) => last.ret = Stored(orders, last.order_id)

\* An order created at a clock reading with microseconds, holding metadata,
\* was updated to "cancelled" without metadata, and the record came back.
C26_Witness ==
    /\ IsCall("update_status")
    /\ Returned
    /\ last.status = "cancelled"
    /\ last.metadata = None
    /\ last.ret[2].metadata = Meta1
    /\ last.ret[2].timestamp.us = 1

\* The records are n of the table's orders, or all of them if it holds fewer,
\* no order twice, and no order left out is later than one of them.
MostRecent(tbl, recs, n) ==
    /\ Len(recs) = (IF n < Len(tbl) THEN n ELSE Len(tbl))
    /\ \A i, j \in 1..Len(recs) : i # j => recs[i].order_id # recs[j].order_id
    /\ \A i \in 1..Len(recs) : recs[i].order_id \in Ids(tbl)
    /\ \A r \in 1..Len(tbl) :
          (\A i \in 1..Len(recs) : recs[i].order_id # tbl[r].id)
             => \A i \in 1..Len(recs) :
                   ~DtLess(recs[i].timestamp, fromisoformat(tbl[r].timestamp))

\* C27: get_history(n) with n >= 0 on a ledger of k orders returns min(n, k)
\* distinct orders, none of the orders left out later than one returned; a
\* call without a limit is the call with n = 100.
C27_ExactlyMostRecent ==
    (IsCall("get_history") /\ last.limit >= 0) =>
        /\ last.ret[1] = "rows"
        /\ MostRecent(orders, last.ret[2], last.limit)

\* get_history(1) left out the earlier of two orders of different timestamps.
C27_Witness ==
    /\ IsCall("get_history")
    /\ last.limit = 1
    /\ Len(orders) = 2
    /\ orders[1].timestamp # orders[2].timestamp
    /\ Len(last.ret[2]) = 1

\* get_history() without a limit returned both orders of the ledger.
C27_WitnessDefault ==
    /\ IsCall("get_history")
    /\ last.limit = DefaultLimit
    /\ Len(orders) = 2
    /\ Len(last.ret[2]) = 2

\* C28: whatever the limit, negative or zero included, get_history(limit)
\* returns no more than max(limit, 0) orders.
C28_LimitAlwaysBounds ==
    IsCall("get_history") =>
        Len(last.ret[2]) <= (IF last.limit > 0 THEN last.limit ELSE 0)

\* The pair the stored orders and a supplied `now` determine: the delivered
\* orders whose timestamp text is not below the text of now minus seven days,
\* and the delivered orders.
StatsOf(tbl, now) ==
    [weekly_delivered |->
        Cardinality({i \in 1..Len(tbl) :
                       /\ tbl[i].status = "delivered"
                       /\ ~TextLess(tbl[i].timestamp,
                                    isoformat([now[2] EXCEPT !.day = @ - 7]))}),
     all_time_delivered |->
        Cardinality({i \in 1..Len(tbl) : tbl[i].status = "delivered"})]

\* C29: what get_stats(now = T) returns is determined by the stored orders and
\* T alone: it is the same pair StatsOf gives for them, whatever calls were
\* made before and whatever they returned.
C29_StatsDeterministic ==
    (IsCall("get_stats") /\ last.now # None) =>
        last.ret[2] = StatsOf(orders, last.now)

\* After two orders were created and delivered, get_stats(now) counted one of
\* them in the week and both in all.
C29_Witness ==
    /\ IsCall("get_stats")
    /\ last.now # None
    /\ Len(orders) = 2
    /\ last.ret[2].weekly_delivered = 1
    /\ last.ret[2].all_time_delivered = 2

\* An order_id field that is an integer: a JSON integer, or a string that
\* spells one.
IntegerField(v) == v[1] = "num" \/ (v[1] = "str" /\ v[2] \in {"0", "1", "2"})
IntegerOf(v) == IF v[1] = "num" THEN v[2] ELSE py_int(v)[2]

\* C30: the response to POST /orders/status is 400 invalid_order_id if the
\* order_id is not an integer; else 400 invalid_status if the status is not
\* in the vocabulary, whether the order exists or not; else 404
\* order_not_found if no order has the id (0 when the field is missing); else
\* 200.  A request answered otherwise than 200 leaves the orders as they were.
C30_HttpPrecedence ==
    /\ [](response.code # 0 =>
            LET order_id == DictGet(response.payload, "order_id", <<"num", 0>>)
                status == DictGet(response.payload, "status", <<"str", "">>)
            IN IF ~IntegerField(order_id)
               THEN /\ response.code = 400
                    /\ response.body = <<"error", "invalid_order_id">>
               ELSE IF status[2] \notin Vocabulary
               THEN /\ response.code = 400
                    /\ response.body = <<"error", "invalid_status">>
               ELSE IF IntegerOf(order_id) \notin Ids(orders)
               THEN /\ response.code = 404
                    /\ response.body = <<"error", "order_not_found">>
               ELSE response.code = 200)
    /\ [][response'.code \notin {0, 200} => orders' = orders]_vars

====
